---- MODULE Spec2Model ----
(***************************************************************************)
(* llmcli: the streaming accumulator, the tool dispatcher and the          *)
(* conversation loop of src/cli/src/main.rs, with the argument validation  *)
(* of src/cli/src/config.rs and the executor of src/cli/src/executor.rs.   *)
(*                                                                         *)
(* Text is a sequence of symbols.  Argument text is a sequence of JSON     *)
(* tokens ("{", "}", ",", a "key":value member, a scalar), so that         *)
(* fragments concatenate with \o and parsing is a real, partial function.  *)
(***************************************************************************)
EXTENDS Integers, Sequences, FiniteSets, TLC

VARIABLES
  pc,                    \* position of main: see PcValues
  messages,              \* main.rs:63   Vec<Message>
  entries,               \* main.rs:249  ConversationLog.entries
  accumulated_text,      \* main.rs:92   Option<String>
  tool_calls,            \* main.rs:93   Vec<ToolCall>
  tool_arguments_jsons,  \* main.rs:95   Vec<String>
  next_call,             \* position of the `for tool_call in &tool_calls` loop
  requests,              \* history: the message list of every request sent
  spawned,               \* history: every invocation of the command runner
  slots,                 \* history: slot index carried by the fragment that pushed tool_calls[i]
  frames,                \* history: the chunks received in the current round
  stream_end,            \* history: how the stream of the current round ended
  nframes,               \* history: chunks received in the whole conversation
  error,                 \* the Err main returned, once pc = "Failed"
  vin                    \* validation harness: the (tool, input) pair under test

vars == <<pc, messages, entries, accumulated_text, tool_calls, tool_arguments_jsons,
          next_call, requests, spawned, slots, frames, stream_end, nframes, error, vin>>

----------------------------------------------------------------------------
(* Bounds of the exploration *)

MaxRounds == 2     \* requests sent in one conversation
MaxFrames == 3     \* chunks received in one conversation

----------------------------------------------------------------------------
(* Option<T>: None is <<>>, Some(x) is <<x>> *)

None == <<>>
Some(x) == <<x>>
IsSome(o) == o # <<>>
Unwrap(o) == o[1]

----------------------------------------------------------------------------
(* serde_json::Value *)

Null == [t |-> "null"]
Str(s) == [t |-> "str", s |-> s]
Num(n) == [t |-> "num", n |-> n]
Obj(f) == [t |-> "obj", o |-> f]

IsObject(v) == v.t = "obj"
IsString(v) == v.t = "str"

\* A member token "key":value of an object text
Member(k, v) == [k |-> k, v |-> v]

GoodUrl == <<"h", "x">>     \* a text the pattern ^h finds a match in
BadUrl == <<"x", "h">>      \* a text only an unanchored h finds a match in

MemberTokens ==
  [ U |-> Member("url", Str(GoodUrl)),
    B |-> Member("url", Str(BadUrl)),
    N |-> Member("url", Num(1)),
    M |-> Member("message", Str(<<"h">>)) ]

IsMemberToken(tok) == tok \in DOMAIN MemberTokens

\* members: pair ("," pair)* ; later members overwrite earlier ones with the same key
RECURSIVE ParseMembers(_, _)
ParseMembers(toks, obj) ==
  IF toks = <<>> THEN None
  ELSE IF ~IsMemberToken(Head(toks)) THEN None
  ELSE LET m == MemberTokens[Head(toks)]
           obj2 == [k \in DOMAIN obj \cup {m.k} |-> IF k = m.k THEN m.v ELSE obj[k]]
           rest == Tail(toks)
       IN IF rest = <<>> THEN Some(obj2)
          ELSE IF Head(rest) # "," THEN None
          ELSE ParseMembers(Tail(rest), obj2)

EmptyObject == [k \in {} |-> Null]

\* serde_json::from_str::<Value>: Some(value), or None for text that is not one JSON value
from_str(text) ==
  IF text = <<"null">> THEN Some(Null)
  ELSE IF text = <<"1">> THEN Some(Num(1))
  ELSE IF Len(text) < 2 THEN None
  ELSE IF Head(text) # "{" \/ text[Len(text)] # "}" THEN None
  ELSE IF Len(text) = 2 THEN Some(Obj(EmptyObject))
  ELSE LET inner == SubSeq(text, 2, Len(text) - 1)
           ms == ParseMembers(inner, EmptyObject)
       IN IF IsSome(ms) THEN Some(Obj(Unwrap(ms))) ELSE None

\* Value::to_string: the canonical JSON text of a value that is not an object
to_string(v) ==
  CASE v.t = "null" -> <<"null">>
    [] v.t = "num" -> <<"1">>
    [] v.t = "str" -> <<"\"">> \o v.s \o <<"\"">>
    [] OTHER -> <<"{..}">>

----------------------------------------------------------------------------
(* Result<T>: Ok(v) or Err(e), e the error text as a sequence of parts *)

Ok(v) == [ok |-> TRUE, v |-> v]
Err(e) == [ok |-> FALSE, e |-> e]

----------------------------------------------------------------------------
(* regex::Regex, for patterns of the form  ^literal  and  literal *)

Pattern(src, anchored, lit) == [src |-> src, anchored |-> anchored, lit |-> lit]

\* is_match as a full match: the literal must be the whole text
is_match_full(p, s) == s = p.lit

\* Regex::is_match: a search, the pattern applied as written
is_match(p, s) ==
  \E i \in 1..(Len(s) + 1) :
    /\ p.anchored => i = 1
    /\ i + Len(p.lit) - 1 <= Len(s)
    /\ SubSeq(s, i, i + Len(p.lit) - 1) = p.lit

----------------------------------------------------------------------------
(* config.rs: Config, Tool, JsonSchema, Property *)

Property(pattern) == [pattern |-> pattern]
ObjectSchema(properties, required) == [properties |-> properties, required |-> required]
Tool(name, input_schema, command, shell) ==
  [name |-> name, input_schema |-> input_schema, command |-> command, shell |-> shell]

UrlPattern == Pattern("^h", TRUE, <<"h">>)      \* stands for ^https?://.*
LoosePattern == Pattern("h", FALSE, <<"h">>)

\* the tool of test_validate_input: url, required, with an anchored pattern
FetchTool ==
  Tool("fetch",
       <<ObjectSchema([k \in {"url"} |-> Property(Some(UrlPattern))], <<"url">>)>>,
       "curl", Some("sh"))

\* a tool that declares no parameter schema
PlainTool == Tool("plain", <<>>, "date", None)

\* the Config loaded from the file: the default shell and the tools
config == [shell |-> "bash", tools |-> <<FetchTool, PlainTool>>]

\* serde_json's Map iterates its keys in sorted order
KeyOrder == <<"message", "url">>

KeysOf(obj) == SelectSeq(KeyOrder, LAMBDA k : k \in DOMAIN obj)

\* config.rs:82-86: the first required field missing from obj, if any
RECURSIVE CheckRequired(_, _)
CheckRequired(required, obj) ==
  IF required = <<>> THEN Ok(<<>>)
  ELSE IF Head(required) \notin DOMAIN obj
       THEN Err(<<"Missing required field: ", Head(required)>>)
       ELSE CheckRequired(Tail(required), obj)

\* a check that refuses every property the schema does not declare
CheckProperty_strict(properties, name, value) ==
  IF name \notin DOMAIN properties THEN Err(<<"Property ", name, " is not declared">>)
  ELSE IF properties[name].pattern = <<>> THEN Ok(<<>>)
  ELSE IF value.t # "str" THEN Err(<<"Property ", name, " must be a string">>)
  ELSE IF ~is_match(properties[name].pattern[1], value.s)
       THEN Err(<<"Property ", name, " doesn't match pattern ",
                  properties[name].pattern[1].src>>)
       ELSE Ok(<<>>)

\* config.rs:90-99: one property of the input against the schema's properties
CheckProperty(properties, name, value) ==
  IF name \notin DOMAIN properties THEN Ok(<<>>)
  ELSE IF ~IsSome(properties[name].pattern) THEN Ok(<<>>)
  ELSE LET pattern == Unwrap(properties[name].pattern)
       IN IF ~IsString(value) THEN Err(<<"Property ", name, " must be a string">>)
          ELSE IF ~is_match(pattern, value.s)
               THEN Err(<<"Property ", name, " doesn't match pattern ", pattern.src>>)
               ELSE Ok(<<>>)

\* config.rs:89-100: every property of the input, in iteration order
RECURSIVE CheckProperties(_, _, _)
CheckProperties(properties, keys, obj) ==
  IF keys = <<>> THEN Ok(<<>>)
  ELSE LET r == CheckProperty(properties, Head(keys), obj[Head(keys)])
       IN IF ~r.ok THEN r ELSE CheckProperties(properties, Tail(keys), obj)

\* config.rs:77-101: one schema of the tool
CheckSchema(schema, input) ==
  IF ~IsObject(input) THEN Err(<<"Input must be an object">>)
  ELSE LET req == CheckRequired(schema.required, input.o)
       IN IF ~req.ok THEN req
          ELSE CheckProperties(schema.properties, KeysOf(input.o), input.o)

RECURSIVE CheckSchemas(_, _)
CheckSchemas(schemas, input) ==
  IF schemas = <<>> THEN Ok(<<>>)
  ELSE LET r == CheckSchema(Head(schemas), input)
       IN IF ~r.ok THEN r ELSE CheckSchemas(Tail(schemas), input)

\* Tool::validate_input
validate_input(tool, input) == CheckSchemas(tool.input_schema, input)

\* build_command without its call of validate_input
build_command_unchecked(tool, input) == Ok(tool.command)

\* Tool::build_command: the command template, unchanged, once the input validates
build_command(tool, input) ==
  LET r == validate_input(tool, input)
  IN IF ~r.ok THEN r ELSE Ok(tool.command)

\* bindings that carry the JSON text of every value, strings included
build_env_vars_json(tool, input) ==
  IF ~IsObject(input) THEN {}
  ELSE { <<<<"param_", key>>, to_string(input.o[key])>> : key \in DOMAIN input.o }

\* Tool::build_env_vars: one (param_<key>, value) pair per property of an object input
build_env_vars(tool, input) ==
  IF ~IsObject(input) THEN {}
  ELSE { <<<<"param_", key>>,
           IF IsString(input.o[key]) THEN input.o[key].s ELSE to_string(input.o[key])>> :
         key \in DOMAIN input.o }

\* Tool::get_shell
get_shell(tool, default) == IF IsSome(tool.shell) THEN Unwrap(tool.shell) ELSE default

----------------------------------------------------------------------------
(* executor.rs *)

\* What the spawned process can do: fail to spawn, exit non-zero, or succeed
RunnerOutcomes ==
  { [spawned |-> FALSE, success |-> FALSE, stdout |-> <<>>, stderr |-> <<>>],
    [spawned |-> TRUE, success |-> FALSE, stdout |-> <<>>, stderr |-> <<"e">>],
    [spawned |-> TRUE, success |-> TRUE, stdout |-> <<"h", "i">>, stderr |-> <<>>] }

\* Executor::execute_with_shell, given what the process does
execute_with_shell(run) ==
  IF ~run.spawned THEN Err(<<"No such file or directory">>)
  ELSE IF ~run.success
       THEN Err(<<"Command failed with exit code ">> \o <<"stdout: ">> \o run.stdout
                  \o <<"stderr: ">> \o run.stderr)
       ELSE Ok(IF run.stderr = <<>> THEN run.stdout
               ELSE IF run.stdout = <<>> THEN run.stderr
               ELSE run.stdout \o <<"\n">> \o run.stderr)

SupportedShells == {"bash", "sh", "zsh"}

\* Executor::execute_tool: the result, and the invocations of the runner it made
execute_tool(tool, input, default_shell, run) ==
  LET command == build_command(tool, input)
      env_vars == build_env_vars(tool, input)
      shell == get_shell(tool, default_shell)
  IN IF ~command.ok THEN [result |-> command, invoked |-> <<>>]
     ELSE IF shell \notin SupportedShells
          THEN [result |-> Err(<<"Unsupported shell: ", shell>>), invoked |-> <<>>]
          ELSE [result |-> execute_with_shell(run),
                invoked |-> <<[shell |-> shell, command |-> command.v, env |-> env_vars,
                               tool |-> tool.name, input |-> input]>>]

----------------------------------------------------------------------------
(* llm_client.rs: Message, ToolCall, StreamChunk, Delta, ToolCallChunk *)

User(content) == [role |-> "user", content |-> content]
Assistant(content, calls) == [role |-> "assistant", content |-> content, tool_calls |-> calls]
\* a Tool message that names no call of the conversation
ToolMessage_unbound(id, content) == [role |-> "tool", tool_call_id |-> <<0, 0>>, content |-> content]
ToolMessage(id, content) == [role |-> "tool", tool_call_id |-> id, content |-> content]

ToolCallFunction(name, arguments) == [name |-> name, arguments |-> arguments]
ToolCall(id, function) == [id |-> id, tool_type |-> "function", function |-> function]

ToolCallFunctionChunk(name, arguments) == [name |-> name, arguments |-> arguments]
ToolCallChunk(index, id, function) == [index |-> index, id |-> id, function |-> function]
Delta(content, calls) == [content |-> content, tool_calls |-> calls]
\* StreamChunk: its choices, each an Option<Delta>
StreamChunk(choices) == [choices |-> choices]

----------------------------------------------------------------------------
(* main.rs:92-137: accumulation *)

\* a round that starts with text left in the buffer
NewRound_stale ==
  [accumulated_text |-> Some(<<"H">>), tool_calls |-> <<>>, tool_arguments_jsons |-> <<>>,
   slots |-> <<>>, panicked |-> FALSE]

\* the accumulation state of one round, as main.rs:92-95 creates it
NewRound ==
  [accumulated_text |-> Some(<<>>), tool_calls |-> <<>>, tool_arguments_jsons |-> <<>>,
   slots |-> <<>>, panicked |-> FALSE]

\* an accumulator keyed by slot: a fragment with an id for a slot already started
\* continues the call of that slot
ApplyCall_by_slot(acc, call) ==
  IF acc.panicked THEN acc
  ELSE IF IsSome(call.id) /\ ~(\E i \in DOMAIN acc.slots : acc.slots[i] = call.index)
  THEN IF ~IsSome(call.function.name)
       THEN [acc EXCEPT !.panicked = TRUE]
       ELSE [acc EXCEPT
               !.tool_calls = Append(@, [id |-> Unwrap(call.id), tool_type |-> "function",
                                          function |-> [name |-> Unwrap(call.function.name),
                                                        arguments |-> [t |-> "null"]]]),
               !.tool_arguments_jsons = Append(@, call.function.arguments),
               !.slots = Append(@, call.index)]
  ELSE IF call.index + 1 > Len(acc.tool_arguments_jsons)
       THEN [acc EXCEPT !.panicked = TRUE]
       ELSE [acc EXCEPT !.tool_arguments_jsons[call.index + 1] = @ \o call.function.arguments]

\* main.rs:117-136: one tool-call fragment.  Both vectors are indexed by push
\* position; `expect` and the index expression panic.
ApplyCall(acc, call) ==
  IF acc.panicked THEN acc
  ELSE IF IsSome(call.id)
  THEN IF ~IsSome(call.function.name)
       THEN [acc EXCEPT !.panicked = TRUE]
       ELSE [acc EXCEPT
               !.tool_calls = Append(@, ToolCall(Unwrap(call.id),
                                  ToolCallFunction(Unwrap(call.function.name), Null))),
               !.tool_arguments_jsons = Append(@, call.function.arguments),
               !.slots = Append(@, call.index)]
  ELSE IF call.index + 1 > Len(acc.tool_arguments_jsons)
       THEN [acc EXCEPT !.panicked = TRUE]
       ELSE [acc EXCEPT !.tool_arguments_jsons[call.index + 1] = @ \o call.function.arguments]

RECURSIVE ApplyCalls(_, _)
ApplyCalls(acc, calls) ==
  IF calls = <<>> THEN acc ELSE ApplyCalls(ApplyCall(acc, Head(calls)), Tail(calls))

\* main.rs:103-138: one choice of a chunk
ApplyChoice(acc, choice) ==
  IF acc.panicked \/ ~IsSome(choice) THEN acc
  ELSE LET delta == Unwrap(choice)
           withText ==
             IF IsSome(delta.content)
             THEN [acc EXCEPT !.accumulated_text =
                     Some((IF IsSome(@) THEN Unwrap(@) ELSE <<>>) \o Unwrap(delta.content))]
             ELSE acc
       IN IF IsSome(delta.tool_calls) THEN ApplyCalls(withText, Unwrap(delta.tool_calls))
          ELSE withText

\* main.rs:99-140: one chunk
RECURSIVE ApplyChoices(_, _)
ApplyChoices(acc, choices) ==
  IF choices = <<>> THEN acc ELSE ApplyChoices(ApplyChoice(acc, Head(choices)), Tail(choices))

ApplyChunk(acc, chunk) == ApplyChoices(acc, chunk.choices)

\* main.rs:149-157: the arguments of every call whose text parses; the others stay Null
FinalizeCalls(calls, jsons) ==
  [i \in 1..Len(calls) |->
     IF i <= Len(jsons) /\ IsSome(from_str(jsons[i]))
     THEN [calls[i] EXCEPT !.function.arguments = Unwrap(from_str(jsons[i]))]
     ELSE calls[i]]

\* an Assistant message that always carries a tool_calls list, even an empty one
AssistantMessage_listed(text, calls) == Assistant(text, Some(calls))

\* main.rs:166-173
AssistantMessage(text, calls) ==
  Assistant(text, IF Len(calls) > 0 THEN Some(calls) ELSE None)

----------------------------------------------------------------------------
(* main.rs:260-292: ConversationLog.  The entries are kept without their timestamp,
   which nothing reads; save() rewrites the file from entries and is taken to succeed
   (it always does when no log file is given, main.rs:305). *)

add_message(log, message) == Append(log, [type |-> "message", message |-> message])
add_tool_call(log, tool_call) == Append(log, [type |-> "tool_call", tool_call |-> tool_call])
add_tool_result(log, tool_call, output) ==
  Append(log, [type |-> "tool_result", tool_call_id |-> tool_call.id,
               tool_name |-> tool_call.function.name, output |-> output])

RECURSIVE LogToolCalls(_, _)
LogToolCalls(log, calls) ==
  IF calls = <<>> THEN log ELSE LogToolCalls(add_tool_call(log, Head(calls)), Tail(calls))

----------------------------------------------------------------------------
(* What the remote service can send *)

SlotIndices == {0, 1}
ToolNames == {"fetch", "plain", "nosuch"}      \* "nosuch" is not in the config
OpeningFragments == { <<"{">> }
LaterFragments == { <<"U", "}">>, <<"B", "}">>, <<"}">> }
ContentFragments == { <<"H">>, <<"i">> }

OneCall(call) == StreamChunk(<<Some(Delta(None, Some(<<call>>)))>>)

ContentChunks == { StreamChunk(<<Some(Delta(Some(c), None))>>) : c \in ContentFragments }

\* the first fragment of a call: the id, the name (or none), the start of the arguments
FirstFragments(id) ==
  { OneCall(ToolCallChunk(k, Some(id), ToolCallFunctionChunk(Some(n), a))) :
      k \in SlotIndices, n \in ToolNames, a \in OpeningFragments }
  \cup { OneCall(ToolCallChunk(0, Some(id), ToolCallFunctionChunk(None, <<>>))) }

\* a continuation: no id, the next piece of the arguments
Continuations ==
  { OneCall(ToolCallChunk(k, None, ToolCallFunctionChunk(None, a))) :
      k \in SlotIndices, a \in LaterFragments }

\* the service gives every call of the conversation an id of its own
FreshId == <<Len(requests), Len(tool_calls) + 1>>

Chunks == ContentChunks \cup FirstFragments(FreshId) \cup Continuations

----------------------------------------------------------------------------
(* main.rs:32-244: main *)

PcValues == {"AwaitingRound", "Accumulating", "Dispatching", "Completed", "Failed", "Panicked"}

Prompt == <<"p">>

Init ==
  /\ pc = "AwaitingRound"
  /\ messages = <<User(Prompt)>>
  /\ entries = add_message(<<>>, User(Prompt))
  /\ accumulated_text = NewRound.accumulated_text
  /\ tool_calls = <<>>
  /\ tool_arguments_jsons = <<>>
  /\ next_call = 1
  /\ requests = <<>>
  /\ spawned = <<>>
  /\ slots = <<>>
  /\ frames = <<>>
  /\ stream_end = "none"
  /\ nframes = 0
  /\ error = None
  /\ vin = [tool |-> PlainTool, input |-> Null, result |-> None, output |-> None]

\* a request that carries the newest message only
RequestMessages_newest(history) == <<history[Len(history)]>>

\* main.rs:79-88: the message list of the request, a clone of the whole history
RequestMessages(history) == history

\* a request sent while the dispatch loop of the round before is still running
OpenStream_overlapping ==
  /\ pc \in {"AwaitingRound", "Dispatching"}
  /\ Len(requests) < MaxRounds
  /\ requests' = Append(requests, RequestMessages(messages))
  /\ pc' = "Accumulating"
  /\ accumulated_text' = NewRound.accumulated_text
  /\ tool_calls' = NewRound.tool_calls
  /\ tool_arguments_jsons' = NewRound.tool_arguments_jsons
  /\ slots' = NewRound.slots
  /\ frames' = <<>>
  /\ stream_end' = "open"
  /\ UNCHANGED <<messages, entries, next_call, spawned, nframes, error, vin>>

\* main.rs:79-95: the request is sent, the stream opens, the round's state is created
OpenStream ==
  /\ pc = "AwaitingRound"
  /\ Len(requests) < MaxRounds
  /\ requests' = Append(requests, RequestMessages(messages))
  /\ pc' = "Accumulating"
  /\ accumulated_text' = NewRound.accumulated_text
  /\ tool_calls' = NewRound.tool_calls
  /\ tool_arguments_jsons' = NewRound.tool_arguments_jsons
  /\ slots' = NewRound.slots
  /\ frames' = <<>>
  /\ stream_end' = "open"
  /\ UNCHANGED <<messages, entries, next_call, spawned, nframes, error, vin>>

\* main.rs:91 with llm_client.rs:147-160: the request fails (connection, status)
TransportError ==
  /\ pc = "AwaitingRound"
  /\ Len(requests) < MaxRounds
  /\ requests' = Append(requests, RequestMessages(messages))
  /\ pc' = "Failed"
  /\ error' = Some(<<"LLM API error">>)
  /\ stream_end' = "none"
  /\ UNCHANGED <<messages, entries, accumulated_text, tool_calls, tool_arguments_jsons,
                 next_call, spawned, slots, frames, nframes, vin>>

\* main.rs:97-140: the stream yields a chunk
RecvChunk ==
  /\ pc = "Accumulating"
  /\ nframes < MaxFrames
  /\ \E chunk \in Chunks :
       LET acc == ApplyChunk([accumulated_text |-> accumulated_text,
                              tool_calls |-> tool_calls,
                              tool_arguments_jsons |-> tool_arguments_jsons,
                              slots |-> slots, panicked |-> FALSE], chunk)
       IN /\ accumulated_text' = acc.accumulated_text
          /\ tool_calls' = acc.tool_calls
          /\ tool_arguments_jsons' = acc.tool_arguments_jsons
          /\ slots' = acc.slots
          /\ pc' = IF acc.panicked THEN "Panicked" ELSE "Accumulating"
          /\ frames' = Append(frames, chunk)
  /\ nframes' = nframes + 1
  /\ UNCHANGED <<messages, entries, next_call, requests, spawned, stream_end, error, vin>>

\* llm_client.rs:174 and 178: the two Err items the stream can yield, a data frame
\* that does not parse as a StreamChunk and an error of the event stream
MalformedFrame == <<"Failed to parse chunk">>
StreamErrors == { MalformedFrame, <<"Stream error">> }

\* main.rs:98 with llm_client.rs:172-178: the stream yields an Err (a frame that
\* does not parse, a stream error) and `event?` returns it from main
RecvError ==
  /\ pc = "Accumulating"
  /\ pc' = "Failed"
  /\ stream_end' = "error"
  /\ \E e \in StreamErrors : error' = Some(e)
  /\ UNCHANGED <<messages, entries, accumulated_text, tool_calls, tool_arguments_jsons,
                 next_call, requests, spawned, slots, frames, nframes, vin>>

\* main.rs:148-175: the code after the `while let` loop, up to the first dispatch.
\* The argument buffers are consumed there; the variable keeps their text as history.
EndOfStream(how) ==
  /\ pc = "Accumulating"
  /\ LET calls == FinalizeCalls(tool_calls, tool_arguments_jsons)
         assistant_msg == AssistantMessage(accumulated_text, calls)
     IN /\ tool_calls' = calls
        /\ entries' = add_message(entries, assistant_msg)
        /\ messages' = Append(messages, assistant_msg)
  /\ stream_end' = how
  /\ next_call' = 1
  /\ pc' = "Dispatching"
  /\ UNCHANGED <<accumulated_text, tool_arguments_jsons, requests, spawned, slots, frames,
                 nframes, error, vin>>

\* main.rs:141-144: StreamEvent::Done, then `break`
RecvDone == EndOfStream("done")

\* main.rs:97: stream.next() is None, the `while let` ends without a Done
StreamClosed == EndOfStream("closed")

\* main.rs:184-188
FindTool(name) ==
  LET found == SelectSeq(config.tools, LAMBDA t : t.name = name)
  IN IF found = <<>> THEN None ELSE Some(Head(found))

\* main.rs:211-213 and 204-207: the content of the Tool message
ToolContent(result) == IF result.ok THEN result.v ELSE <<"Error: ">> \o result.e

\* main.rs:179-227: one iteration of `for tool_call in &tool_calls`
DispatchTool ==
  /\ pc = "Dispatching"
  /\ next_call <= Len(tool_calls)
  /\ LET tool_call == tool_calls[next_call]
         tool == FindTool(tool_call.function.name)
     IN IF ~IsSome(tool)
        THEN /\ pc' = "Failed"
             /\ error' = Some(<<"Tool not found: ", tool_call.function.name>>)
             /\ UNCHANGED <<messages, entries, next_call, spawned>>
        ELSE \E run \in RunnerOutcomes :
               LET done == execute_tool(Unwrap(tool), tool_call.function.arguments,
                                        config.shell, run)
                   content == ToolContent(done.result)
               IN /\ entries' = add_tool_result(entries, tool_call, content)
                  /\ messages' = Append(messages, ToolMessage(tool_call.id, content))
                  /\ spawned' = spawned \o [j \in DOMAIN done.invoked |->
                                               [call_id |-> tool_call.id, run |-> done.invoked[j]]]
                  /\ next_call' = next_call + 1
                  /\ UNCHANGED <<pc, error>>
  /\ UNCHANGED <<accumulated_text, tool_calls, tool_arguments_jsons, requests, slots,
                 frames, stream_end, nframes, vin>>

\* main.rs:229-240: after the dispatch loop
EndDispatch ==
  /\ pc = "Dispatching"
  /\ next_call > Len(tool_calls)
  /\ entries' = LogToolCalls(entries, tool_calls)
  /\ pc' = IF tool_calls = <<>> THEN "Completed" ELSE "AwaitingRound"
  /\ UNCHANGED <<messages, accumulated_text, tool_calls, tool_arguments_jsons, next_call,
                 requests, spawned, slots, frames, stream_end, nframes, error, vin>>

Next ==
  \/ OpenStream
  \/ TransportError
  \/ RecvChunk
  \/ RecvError
  \/ RecvDone
  \/ StreamClosed
  \/ DispatchTool
  \/ EndDispatch

Spec == Init /\ [][Next]_vars

TypeOK ==
  /\ pc \in PcValues
  /\ Len(tool_calls) = Len(slots)
  /\ nframes <= MaxFrames
  /\ Len(requests) <= MaxRounds

----------------------------------------------------------------------------
(* Reading the history *)

Range(seq) == { seq[i] : i \in DOMAIN seq }

IsAssistant(m) == m.role = "assistant"
IsTool(m) == m.role = "tool"

\* the tool calls an Assistant message lists
CallsOf(m) == IF IsSome(m.tool_calls) THEN Unwrap(m.tool_calls) ELSE <<>>

\* the stream of the current round has ended and its Assistant message is in the history
StreamEnded == stream_end \in {"done", "closed"}

\* position of the Assistant message of the current round, once StreamEnded
LastAssistant ==
  CHOOSE p \in DOMAIN messages :
    /\ IsAssistant(messages[p])
    /\ \A q \in (p + 1)..Len(messages) : ~IsAssistant(messages[q])

\* positions of the Tool messages of the current round
RoundToolMessages == (LastAssistant + 1)..Len(messages)

\* the Tool messages that answer call id after position p
AnswersAfter(p, id) ==
  { q \in (p + 1)..Len(messages) : IsTool(messages[q]) /\ messages[q].tool_call_id = id }

IsErrorContent(content) == content # <<>> /\ Head(content) = "Error: "

Registered(name) == IsSome(FindTool(name))

\* the call fragment a chunk carries, if it carries one
CallOf(chunk) ==
  LET delta == Unwrap(chunk.choices[1])
  IN IF IsSome(delta.tool_calls) THEN Some(Unwrap(delta.tool_calls)[1]) ELSE None

IsFirstFragment(chunk) == IsSome(CallOf(chunk)) /\ IsSome(Unwrap(CallOf(chunk)).id)
IsContinuation(chunk) == IsSome(CallOf(chunk)) /\ ~IsSome(Unwrap(CallOf(chunk)).id)
SlotOf(chunk) == Unwrap(CallOf(chunk)).index
TextOf(chunk) == Unwrap(CallOf(chunk)).function.arguments

\* the accumulation of a whole sequence of chunks, and its finalized calls
RECURSIVE Accumulate(_, _)
Accumulate(acc, chunks) ==
  IF chunks = <<>> THEN acc ELSE Accumulate(ApplyChunk(acc, Head(chunks)), Tail(chunks))

FinalizeRound(chunks) ==
  LET acc == Accumulate(NewRound, chunks)
  IN FinalizeCalls(acc.tool_calls, acc.tool_arguments_jsons)

----------------------------------------------------------------------------
(* Validation, stated over the schema rather than computed by the code *)

\* the pattern's literal occurs in s (at the start, for an anchored pattern)
Finds(p, s) ==
  \E a \in 0..Len(s) :
    /\ a + Len(p.lit) <= Len(s)
    /\ p.anchored => a = 0
    /\ \A j \in 1..Len(p.lit) : s[a + j] = p.lit[j]

MissingRequired(schema, input) == { r \in Range(schema.required) : r \notin DOMAIN input.o }

Patterned(schema, input) ==
  { k \in DOMAIN input.o \cap DOMAIN schema.properties : IsSome(schema.properties[k].pattern) }

NotStrings(schema, input) == { k \in Patterned(schema, input) : ~IsString(input.o[k]) }

Mismatches(schema, input) ==
  { k \in Patterned(schema, input) :
      IsString(input.o[k]) /\ ~Finds(Unwrap(schema.properties[k].pattern), input.o[k].s) }

SchemaAccepts(schema, input) ==
  /\ IsObject(input)
  /\ MissingRequired(schema, input) = {}
  /\ NotStrings(schema, input) = {}
  /\ Mismatches(schema, input) = {}

Accepts(tool, input) ==
  \A j \in DOMAIN tool.input_schema : SchemaAccepts(tool.input_schema[j], input)

----------------------------------------------------------------------------
(* Claims *)

\* C1: once the dispatching of a round is over, every ToolCall of every Assistant
\* message has exactly one later Tool message with its id, whatever the outcome of its
\* dispatch, and every Tool message answers a ToolCall of an earlier Assistant message.
C1_NoOrphanedToolResponses ==
  pc # "Dispatching" =>
    /\ \A p \in DOMAIN messages :
         IsAssistant(messages[p]) =>
           \A c \in DOMAIN CallsOf(messages[p]) :
             Cardinality(AnswersAfter(p, CallsOf(messages[p])[c].id)) = 1
    /\ \A q \in DOMAIN messages :
         IsTool(messages[q]) =>
           \E p \in 1..(q - 1) :
             /\ IsAssistant(messages[p])
             /\ \E c \in DOMAIN CallsOf(messages[p]) :
                  CallsOf(messages[p])[c].id = messages[q].tool_call_id

\* the slot index of the call that a Tool message of the current round answers
SlotOfAnswer(q) ==
  slots[CHOOSE i \in DOMAIN tool_calls : tool_calls[i].id = messages[q].tool_call_id]

\* C2: in a round whose calls carry the slot indices 0..n-1, the Tool messages of the
\* round are in ascending slot order, in whatever order the first fragments arrived.
C2_ToolMessagesInSlotOrder ==
  (/\ StreamEnded
   /\ Range(slots) = 0..(Len(slots) - 1)
   /\ Cardinality(Range(slots)) = Len(slots))
  => \A q1, q2 \in RoundToolMessages :
       q1 < q2 => SlotOfAnswer(q1) < SlotOfAnswer(q2)

\* C3: a call naming a tool that is not registered does not abort the conversation:
\* the dispatch loop does not stop at it, and once past it a Tool message carrying an
\* error answers it.
C3_UnknownToolNotFatal ==
  StreamEnded =>
    \A i \in DOMAIN tool_calls :
      ~Registered(tool_calls[i].function.name) =>
        /\ ~(pc = "Failed" /\ next_call = i)
        /\ next_call > i =>
             \E q \in RoundToolMessages :
               /\ messages[q].tool_call_id = tool_calls[i].id
               /\ IsErrorContent(messages[q].content)

\* C4: a round with no tool call ends the loop in Completed, after which no request is
\* sent; a round that dispatched at least one call goes back to AwaitingRound, where
\* the next step sends a request.
C4_Termination ==
  [][ /\ (pc = "Dispatching" /\ pc' # "Dispatching" /\ tool_calls = <<>>) => pc' = "Completed"
      /\ (pc = "Dispatching" /\ pc' # "Dispatching" /\ next_call > 1) => pc' = "AwaitingRound"
      /\ pc = "Completed" => requests' = requests
      /\ (pc = "AwaitingRound" /\ pc' # "AwaitingRound") => Len(requests') = Len(requests) + 1
    ]_vars

\* the chunks are one call on one slot: a first fragment with id and name, then only
\* continuations for the same slot
OneFragmentedCall(chunks) ==
  /\ chunks # <<>>
  /\ IsFirstFragment(chunks[1])
  /\ IsSome(Unwrap(CallOf(chunks[1])).function.name)
  /\ \A j \in 2..Len(chunks) :
       IsContinuation(chunks[j]) /\ SlotOf(chunks[j]) = SlotOf(chunks[1])

RECURSIVE ConcatText(_)
ConcatText(chunks) ==
  IF chunks = <<>> THEN <<>> ELSE TextOf(Head(chunks)) \o ConcatText(Tail(chunks))

\* the single frame that carries the whole argument text of a fragmented call
Unfragmented(chunks) ==
  LET first == Unwrap(CallOf(chunks[1]))
  IN OneCall(ToolCallChunk(first.index, first.id,
                           ToolCallFunctionChunk(first.function.name, ConcatText(chunks))))

\* C5: a call fragmented on slot k is finalized as the call of the single frame that
\* carries its whole argument text.
C5_ReassemblyCorrectness ==
  OneFragmentedCall(frames) =>
    /\ pc # "Panicked"
    /\ StreamEnded => tool_calls = FinalizeRound(<<Unfragmented(frames)>>)

\* a continuation whose slot no earlier first fragment of the round started
OrphanContinuation(j) ==
  /\ IsContinuation(frames[j])
  /\ \A i \in 1..(j - 1) :
       ~(IsFirstFragment(frames[i]) /\ SlotOf(frames[i]) = SlotOf(frames[j]))

\* C6: a continuation for a slot that was never started fails the round; its text is
\* not dropped and not appended to the call of another slot.
C6_OrphanContinuationFailsRound ==
  (\E j \in DOMAIN frames : OrphanContinuation(j)) => pc \in {"Failed", "Panicked"}

\* C7: when the argument text of a call does not parse, the other calls of the round
\* have their own parsed arguments and the failed call, once dispatched, is answered
\* by a Tool message carrying an error description.
C7_PartialFailureIsolation ==
  StreamEnded =>
    \A i \in DOMAIN tool_calls :
      LET parsed == from_str(tool_arguments_jsons[i])
      IN /\ IsSome(parsed) => tool_calls[i].function.arguments = Unwrap(parsed)
         /\ (~IsSome(parsed) /\ i < next_call /\ Registered(tool_calls[i].function.name)) =>
              \E q \in RoundToolMessages :
                /\ messages[q].tool_call_id = tool_calls[i].id
                /\ IsErrorContent(messages[q].content)

\* the calls of the current round that have been dispatched and whose arguments the
\* schema of their tool rejects
RejectedCalls ==
  { i \in DOMAIN tool_calls :
      /\ StreamEnded
      /\ i < next_call
      /\ Registered(tool_calls[i].function.name)
      /\ ~Accepts(Unwrap(FindTool(tool_calls[i].function.name)),
                  tool_calls[i].function.arguments) }

\* C8: the command runner is only ever invoked with arguments the tool's schema
\* accepts; a dispatched call whose arguments are rejected is answered by an error and
\* the runner was not invoked for it.
C8_NoSpawnBeforeValidation ==
  /\ \A j \in DOMAIN spawned :
       Accepts(Unwrap(FindTool(spawned[j].run.tool)), spawned[j].run.input)
  /\ \A i \in RejectedCalls :
       /\ \A j \in DOMAIN spawned : spawned[j].call_id # tool_calls[i].id
       /\ \E q \in RoundToolMessages :
            /\ messages[q].tool_call_id = tool_calls[i].id
            /\ IsErrorContent(messages[q].content)

\* C8 witness: a call whose url does not match the pattern has been dispatched, and
\* another call of the conversation did reach the runner
C8_Witness ==
  /\ \E i \in RejectedCalls :
       /\ IsObject(tool_calls[i].function.arguments)
       /\ "url" \in DOMAIN tool_calls[i].function.arguments.o
  /\ spawned # <<>>

\* C10: a stream that ends without the terminal marker fails the round: no Assistant
\* message is appended for it, nothing is dispatched, the conversation aborts.
C10_MissingTerminalMarkerAborts ==
  stream_end = "closed" =>
    /\ pc = "Failed"
    /\ messages = requests[Len(requests)]
    /\ next_call = 1

----------------------------------------------------------------------------
(* Tool::validate_input on its own: a tool and an input are drawn, then validated *)

TestPatterns == {None, Some(UrlPattern), Some(LoosePattern)}

TestProperties ==
  { [k \in {} |-> Property(None)] }
  \cup { [k \in {"url"} |-> Property(pat)] : pat \in TestPatterns }

TestRequired == { <<>>, <<"url">>, <<"message", "url">> }

TestSchemas == { ObjectSchema(props, req) : props \in TestProperties, req \in TestRequired }

\* no shell of its own, a supported one, an unsupported one
TestShells == { None, Some("sh"), Some("fish") }

\* tools with no schema, one schema, two schemas
TestTools ==
  { Tool("t", <<>>, "cmd", sh) : sh \in TestShells }
  \cup { Tool("t", <<s1>>, "cmd", sh) : s1 \in TestSchemas, sh \in TestShells }
  \cup { Tool("t", <<s1, s2>>, "cmd", sh) : s1, s2 \in TestSchemas, sh \in TestShells }

TestValues == { Str(GoodUrl), Str(BadUrl), Str(<<"x">>), Num(1), Null }

TestObjects ==
  UNION { [keys -> TestValues] : keys \in SUBSET {"message", "url"} }

TestInputs == { Null, Num(1), Str(GoodUrl) } \cup { Obj(o) : o \in TestObjects }

InitValidate ==
  /\ pc = "Completed"
  /\ messages = <<User(Prompt)>>
  /\ entries = add_message(<<>>, User(Prompt))
  /\ accumulated_text = NewRound.accumulated_text
  /\ tool_calls = <<>>
  /\ tool_arguments_jsons = <<>>
  /\ next_call = 1
  /\ requests = <<>>
  /\ spawned = <<>>
  /\ slots = <<>>
  /\ frames = <<>>
  /\ stream_end = "none"
  /\ nframes = 0
  /\ error = None
  /\ vin \in { [tool |-> t, input |-> i, result |-> None, output |-> None] :
               t \in TestTools, i \in TestInputs }

Validate ==
  /\ ~IsSome(vin.result)
  /\ vin' = [vin EXCEPT !.result = Some(validate_input(vin.tool, vin.input))]
  /\ UNCHANGED <<pc, messages, entries, accumulated_text, tool_calls, tool_arguments_jsons,
                 next_call, requests, spawned, slots, frames, stream_end, nframes, error>>

\* main.rs:193-194 with executor.rs:18-40: the dispatcher runs the tool on the input
Execute ==
  /\ IsSome(vin.result)
  /\ ~IsSome(vin.output)
  /\ \E run \in RunnerOutcomes :
       LET done == execute_tool(vin.tool, vin.input, config.shell, run)
       IN /\ vin' = [vin EXCEPT !.output = Some(done.result)]
          /\ spawned' = [j \in DOMAIN done.invoked |->
                           [call_id |-> <<0, 1>>, run |-> done.invoked[j]]]
  /\ UNCHANGED <<pc, messages, entries, accumulated_text, tool_calls, tool_arguments_jsons,
                 next_call, requests, slots, frames, stream_end, nframes, error>>

NextValidate == Validate \/ Execute

SpecValidate == InitValidate /\ [][NextValidate]_vars

\* the first schema of the tool that rejects the input
FirstRejecting(tool, input) ==
  tool.input_schema[CHOOSE j \in DOMAIN tool.input_schema :
    /\ ~SchemaAccepts(tool.input_schema[j], input)
    /\ \A i \in 1..(j - 1) : SchemaAccepts(tool.input_schema[i], input)]

C11_MalformedFrameNotFatal ==
  ~(pc = "Failed" /\ error = Some(MalformedFrame))

\* positions of the transcript records of one kind, and of one call
RecordsOfType(type) == { j \in DOMAIN entries : entries[j].type = type }
CallRecords(id) == { i \in RecordsOfType("tool_call") : entries[i].tool_call.id = id }
ResultRecords(id) == { j \in RecordsOfType("tool_result") : entries[j].tool_call_id = id }

\* C12: in the transcript the tool_call record of a dispatched call comes before the
\* tool_result record of the same call.
C12_CallLoggedBeforeResult ==
  \A j \in RecordsOfType("tool_result") :
    \E i \in CallRecords(entries[j].tool_call_id) : i < j

\* the ids of the calls dispatched so far: each has its Tool message in the history
DispatchedIds == { messages[q].tool_call_id : q \in { p \in DOMAIN messages : IsTool(messages[p]) } }

\* C13: the transcript holds one record per event, in the order of the events: a
\* message record for each User and Assistant message appended, and for each
\* dispatched call one tool_result record and, once its round is over, one tool_call
\* record that precedes the result.
C13_OneRecordPerEvent ==
  /\ Cardinality(RecordsOfType("message"))
       = Cardinality({ p \in DOMAIN messages : ~IsTool(messages[p]) })
  /\ \A j \in RecordsOfType("tool_call") \cup RecordsOfType("tool_result") :
       (IF entries[j].type = "tool_call" THEN entries[j].tool_call.id
        ELSE entries[j].tool_call_id) \in DispatchedIds
  /\ \A id \in DispatchedIds :
       /\ Cardinality(ResultRecords(id)) = 1
       /\ pc # "Dispatching" =>
            /\ Cardinality(CallRecords(id)) = 1
            /\ \A i \in CallRecords(id), j \in ResultRecords(id) : i < j

\* two messages are the same message (the role is compared first: messages of
\* different roles are records of different shapes)
SameMessage(a, b) == a.role = b.role /\ a = b

\* the list `short` is a prefix of the list `long`
IsPrefixOf(short, long) ==
  /\ Len(short) <= Len(long)
  /\ \A p \in DOMAIN short : SameMessage(short[p], long[p])

\* C14: the history is append-only: no step removes, reorders or changes a message
\* of it, and the message list of each request is a prefix of the message list of
\* every later request.
C14_HistoryAppendOnly ==
  [][ /\ IsPrefixOf(messages, messages')
      /\ \A j, k \in DOMAIN requests' : j < k => IsPrefixOf(requests'[j], requests'[k])
    ]_vars

\* a second request was sent, with a longer message list than the first
C14_Witness ==
  /\ Len(requests) = 2
  /\ Len(requests[2]) > Len(requests[1])
  /\ Len(messages) > Len(requests[2])

\* C15: the history is the User message followed by blocks of one Assistant message
\* and its Tool messages: every Tool message names a call listed in the nearest
\* Assistant message before it, and only Tool messages lie between the two.
C15_ToolMessagesFollowTheirAssistant ==
  /\ messages[1].role = "user"
  /\ \A p \in 2..Len(messages) : IsAssistant(messages[p]) \/ IsTool(messages[p])
  /\ \A q \in DOMAIN messages :
       IsTool(messages[q]) =>
         \E a \in 1..(q - 1) :
           /\ IsAssistant(messages[a])
           /\ \A m \in (a + 1)..q : IsTool(messages[m])
           /\ \E c \in Range(CallsOf(messages[a])) : c.id = messages[q].tool_call_id

\* a block of one Assistant message and the Tool messages of its two calls, and the
\* Assistant message of the next round after it
C15_Witness ==
  /\ Len(messages) >= 5
  /\ IsAssistant(messages[2]) /\ Len(CallsOf(messages[2])) = 2
  /\ IsTool(messages[3]) /\ IsTool(messages[4])
  /\ messages[3].tool_call_id # messages[4].tool_call_id
  /\ IsAssistant(messages[5])

\* the Tool messages the current round has appended so far
RoundAnswers == Len(messages) - Len(requests[Len(requests)]) - 1

\* C16: rounds do not overlap and a round accumulates before it dispatches: a request
\* is sent only when no round is in flight; while a stream is read nothing is run and
\* the history stays the one the request carried; a command is run or a Tool message
\* appended only after the stream has ended, for the call next in the list, and each
\* call before it has its Tool message by then.
C16_OneRoundAccumulateThenDispatch ==
  [][ /\ requests' # requests =>
           /\ pc = "AwaitingRound"
           /\ Len(requests') = Len(requests) + 1
           /\ requests # <<>> => StreamEnded /\ next_call > Len(tool_calls)
      /\ pc = "Accumulating" =>
           /\ Len(messages) = Len(requests[Len(requests)])
           /\ spawned' = spawned
           /\ \A q \in DOMAIN messages' : IsTool(messages'[q]) => q \in DOMAIN messages
      /\ frames' # frames => pc \in {"AwaitingRound", "Accumulating"}
      /\ pc = "Dispatching" => StreamEnded /\ RoundAnswers = next_call - 1
      /\ (spawned' # spawned \/ (pc = "Dispatching" /\ Len(messages') > Len(messages))) =>
           /\ pc = "Dispatching" /\ StreamEnded
           /\ Len(spawned') <= Len(spawned) + 1
           /\ \A j \in DOMAIN spawned' \ DOMAIN spawned :
                spawned'[j].call_id = tool_calls[next_call].id
           /\ Len(messages') = Len(messages) + 1
           /\ IsTool(messages'[Len(messages')])
           /\ messages'[Len(messages')].tool_call_id = tool_calls[next_call].id
           /\ next_call' = next_call + 1
    ]_vars

\* the second round is dispatching its second call: two commands were run, one after
\* the other, in the first round and one in this round
C16_Witness ==
  /\ pc = "Dispatching" /\ StreamEnded
  /\ Len(requests) = 2
  /\ next_call = 2
  /\ Len(spawned) >= 2

\* the content fragments a sequence of chunks carries, concatenated in arrival order
RECURSIVE ContentOfChoices(_)
ContentOfChoices(choices) ==
  IF choices = <<>> THEN <<>>
  ELSE (IF IsSome(Head(choices)) /\ IsSome(Unwrap(Head(choices)).content)
        THEN Unwrap(Unwrap(Head(choices)).content) ELSE <<>>)
       \o ContentOfChoices(Tail(choices))

RECURSIVE ContentOf(_)
ContentOf(chunks) ==
  IF chunks = <<>> THEN <<>>
  ELSE ContentOfChoices(Head(chunks).choices) \o ContentOf(Tail(chunks))

FragmentsOfSlot(k) == SelectSeq(frames, LAMBDA c : IsSome(CallOf(c)) /\ SlotOf(c) = k)

\* every slot of the round is started once, by a first fragment that carries its id
\* and its name, before any of its continuations
SlotsStartedByTheirId ==
  /\ \A j \in DOMAIN frames : ~OrphanContinuation(j)
  /\ \A j \in DOMAIN frames :
       IsFirstFragment(frames[j]) =>
         /\ IsSome(Unwrap(CallOf(frames[j])).function.name)
         /\ \A i \in 1..(j - 1) :
              ~(IsFirstFragment(frames[i]) /\ SlotOf(frames[i]) = SlotOf(frames[j]))

\* C18: when the fragments of several slots are interleaved, the argument text of the
\* call of slot k is the text of exactly the fragments that carried index k, in
\* arrival order, and accumulation does not fail.
C18_InterleavedSlotsKeepTheirText ==
  SlotsStartedByTheirId =>
    /\ pc # "Panicked"
    /\ \A i \in DOMAIN tool_arguments_jsons :
         tool_arguments_jsons[i] = ConcatText(FragmentsOfSlot(slots[i]))

\* the calls of the round whose accumulated argument text is not JSON
UnparsedCalls ==
  { i \in DOMAIN tool_calls : ~IsSome(from_str(tool_arguments_jsons[i])) }

\* C19: a call whose argument text failed to parse is never run: no command is
\* spawned for it, whatever the tool, a tool without a schema included.
C19_UnparsedCallNeverRun ==
  StreamEnded =>
    \A i \in UnparsedCalls :
      \A j \in DOMAIN spawned : spawned[j].call_id # tool_calls[i].id

\* positions of the first fragments of the round, and of those that carry no name
FirstFragmentFrames == { j \in DOMAIN frames : IsFirstFragment(frames[j]) }
NamelessFrames ==
  { j \in FirstFragmentFrames : ~IsSome(Unwrap(CallOf(frames[j])).function.name) }

\* C20: a fragment with an id and no function name starts a pending call like any
\* other first fragment, and neither the round nor the process is aborted by it.
C20_NamelessFragmentStartsCall ==
  NamelessFrames # {} =>
    /\ pc \notin {"Panicked", "Failed"}
    /\ Len(tool_calls) = Cardinality(FirstFragmentFrames)

\* C21: the loop stops at the maximum round count it was given: once that many
\* requests have been sent it does not go back to await another round, even when the
\* last round dispatched a tool call.
C21_RoundCapEnforced ==
  Len(requests) = MaxRounds => pc # "AwaitingRound"

\* C22: the accumulation state belongs to one round: the step that opens a round
\* leaves the text buffer empty and no call and no argument buffer pending, and the
\* Assistant message of a round holds the text and the calls of the frames of that
\* round only (every call of it has an id the service issued in that round).
C22_AccumulationScopedToRound ==
  [][ /\ (pc = "AwaitingRound" /\ pc' = "Accumulating") =>
           /\ accumulated_text' = Some(<<>>)
           /\ tool_calls' = <<>>
           /\ tool_arguments_jsons' = <<>>
      /\ (pc = "Accumulating" /\ pc' = "Dispatching") =>
           LET assistant == messages'[Len(messages')]
           IN /\ IsAssistant(assistant)
              /\ Len(Unwrap(assistant.content)) = Len(ContentOf(frames))
              /\ Len(CallsOf(assistant)) = Cardinality(FirstFragmentFrames)
              /\ \A c \in Range(CallsOf(assistant)) : c.id[1] = Len(requests)
    ]_vars

\* the second round has ended with one call and no text, after a first round that
\* had text and a call
C22_Witness ==
  /\ Len(requests) = 2
  /\ StreamEnded
  /\ Unwrap(messages[2].content) # <<>>
  /\ Len(CallsOf(messages[2])) = 1
  /\ messages[LastAssistant].content = Some(<<>>)
  /\ Len(CallsOf(messages[LastAssistant])) = 1
  /\ LastAssistant > 2

\* C24: the list of started calls and the list of argument buffers have the same
\* length at every moment, and the Assistant message of a round lists as many calls
\* as the round received fragments with an id, whatever their slot index: a second
\* fragment with an id for a slot already started is one more call.
C24_OneCallPerIdFragment ==
  /\ Len(tool_calls) = Len(tool_arguments_jsons)
  /\ pc = "Accumulating" => Len(tool_calls) = Cardinality(FirstFragmentFrames)
  /\ StreamEnded =>
       Len(CallsOf(messages[LastAssistant])) = Cardinality(FirstFragmentFrames)

\* a round that received two fragments with an id for the same slot has ended with
\* two calls in its Assistant message
C24_Witness ==
  /\ StreamEnded
  /\ \E i, j \in FirstFragmentFrames : i < j /\ SlotOf(frames[i]) = SlotOf(frames[j])
  /\ Len(CallsOf(messages[LastAssistant])) = 2

\* the value of the binding of an argument property: the text itself for a string,
\* the JSON text for a number or null
StringForm(v) ==
  IF v.t = "str" THEN v.s ELSE IF v.t = "num" THEN <<"1">> ELSE <<"null">>

\* the shell the tool asks for: its own, or the default of the configuration
ShellFor(tool) == IF tool.shell # None THEN tool.shell[1] ELSE config.shell

\* C23: the command runner is invoked exactly for the validated calls whose shell is
\* supported, and it is given the command template of the tool unchanged, the tool's
\* own shell or else the default shell, and one binding param_<key> per property of
\* the arguments, holding the string itself or the JSON text of any other value.
C23_RunnerGetsCommandShellEnv ==
  IsSome(vin.output) =>
    /\ Len(spawned) = (IF Unwrap(vin.result).ok /\ ShellFor(vin.tool) \in SupportedShells
                       THEN 1 ELSE 0)
    /\ \A j \in DOMAIN spawned :
         LET run == spawned[j].run
         IN /\ run.command = vin.tool.command
            /\ run.shell = ShellFor(vin.tool)
            /\ IF IsObject(vin.input)
               THEN /\ Cardinality(run.env) = Cardinality(DOMAIN vin.input.o)
                    /\ \A k \in DOMAIN vin.input.o :
                         <<<<"param_", k>>, StringForm(vin.input.o[k])>> \in run.env
               ELSE run.env = {}

\* a tool with no shell of its own was run by the default shell on a string and a
\* number
C23_Witness ==
  /\ IsSome(vin.output)
  /\ vin.tool.shell = None
  /\ vin.tool.input_schema # <<>>
  /\ vin.input = Obj(("message" :> Num(1)) @@ ("url" :> Str(GoodUrl)))
  /\ Len(spawned) = 1
  /\ spawned[1].run.shell = "bash"
  /\ spawned[1].run.env = { <<<<"param_", "message">>, <<"1">>>>,
                            <<<<"param_", "url">>, GoodUrl>> }

\* the properties of the input that no schema of the tool declares
Undeclared(tool, input) ==
  { k \in DOMAIN input.o :
      \A j \in DOMAIN tool.input_schema : k \notin DOMAIN tool.input_schema[j].properties }

\* C25: properties the schema does not declare are never what validation rejects (a
\* rejection names no such property, and the verdict is the same whatever their
\* value), and the command that is run has one binding param_<key> for every key of
\* the arguments, declared or not.
C25_UndeclaredPropertiesPassThrough ==
  (IsSome(vin.output) /\ IsObject(vin.input)) =>
    LET r == Unwrap(vin.result)
    IN /\ \A k \in Undeclared(vin.tool, vin.input), v \in TestValues :
            validate_input(vin.tool, Obj([vin.input.o EXCEPT ![k] = v])) = r
       /\ (~r.ok /\ r.e[1] = "Property ") => r.e[2] \notin Undeclared(vin.tool, vin.input)
       /\ \A j \in DOMAIN spawned :
            { b[1] : b \in spawned[j].run.env }
              = { <<"param_", k>> : k \in DOMAIN vin.input.o }

\* a tool whose schema declares url only was run on arguments that also have a
\* message: the command got a binding for both
C25_Witness ==
  /\ IsSome(vin.output)
  /\ Len(vin.tool.input_schema) = 1
  /\ IsObject(vin.input)
  /\ DOMAIN vin.input.o = {"message", "url"}
  /\ Undeclared(vin.tool, vin.input) = {"message"}
  /\ Len(spawned) = 1
  /\ \E b \in spawned[1].run.env : b[1] = <<"param_", "message">>

====
